---- MODULE Spec2Model ----
(***************************************************************************)
(* Model of ai-wes/deep-research (Python port):                            *)
(*   py_src/deep_research.py  deep_research, the recursive orchestrator    *)
(*   py_src/text_splitter.py  RecursiveCharacterTextSplitter               *)
(*                                                                         *)
(* Spec       the orchestrator: one top-level deep_research call, its      *)
(*            recursion kept as an explicit call stack of frames.          *)
(* SpecSplit  the chunker: one split_text call, recursion as a stack.      *)
(* SpecChunk  the chunker entered by either public method: split_text on a *)
(*            text, or merge_splits on a list of pieces.                   *)
(*                                                                         *)
(* The completion service and the search service are collaborators; what   *)
(* they return (or that they raise) is a nondeterministic input.           *)
(***************************************************************************)
EXTENDS Integers, Sequences, FiniteSets, TLC

VARIABLES
    \* ---- orchestrator (deep_research.py) ----
    breadth0,      \* breadth argument of the top-level call
    depth0,        \* depth argument of the top-level call
    on_progress,   \* whether an observer callback was passed
    stack,         \* call stack of deep_research frames, root first
    exc,           \* exception in flight: "None", "SearchError", "CompletionError"
    outcome,       \* "running", "returned", "raised"
    result,        \* <<>> or <<ResearchResult>> returned by the top-level call
    delivered,     \* <<>> or <<snapshot>>: the record last handed to on_progress
    nrecords,      \* number of ResearchProgress objects constructed so far
    nodes,         \* nodes[k]: number of deep_research calls made at level k-1
    \* ---- chunker (text_splitter.py) ----
    chunk_size,
    chunk_overlap,
    text0,         \* the text given to the top-level split_text
    cstack,        \* call stack of split_text frames
    cret,          \* value returned by the outermost split_text, once done
    status         \* "idle", "new", "ValueError", "ready", "running", "done", "RecursionError"

rvars == <<breadth0, depth0, on_progress, stack, exc, outcome, result,
           delivered, nrecords, nodes>>
cvars == <<chunk_size, chunk_overlap, text0, cstack, cret, status>>
vars == <<rvars, cvars>>

----------------------------------------------------------------------------
(* Bounds of the model *)

\* largest breadth entered at the root (run.py accepts any integer)
MaxBreadth == 3
\* largest depth entered at the root
MaxDepth == 3
\* most non-blank lines the completion service answers a planning prompt with
MaxLines == 2
\* distinct learning strings the completion service may produce
MaxFinding == 2
\* most learnings one extraction yields in the model (the code allows NumLearnings)
MaxNew == 1
\* distinct non-empty URLs the search service may return
MaxUrl == 1
\* most documents one search returns in the model (the code allows SearchLimit)
MaxDocs == 1

\* longest text given to split_text
MaxLen == 4
\* largest chunk_size a splitter is constructed with
MaxChunkSize == 3
\* frames the interpreter allows on the call stack before RecursionError
\* (sys.getrecursionlimit() in CPython; kept small here)
MaxFrames == 8

\* most pieces given to a direct call of merge_splits
MaxPieces == 3
\* longest piece given to a direct call of merge_splits
MaxPieceLen == 3

\* process_serp_result(..., num_learnings=3, ...)
NumLearnings == 3
\* client.search(q.query, limit=5)
SearchLimit == 5

----------------------------------------------------------------------------
(* Helpers *)

Max(a, b) == IF a >= b THEN a ELSE b
Min(a, b) == IF a <= b THEN a ELSE b

Last(s) == s[Len(s)]

\* all sequences over S of length 0..n
RECURSIVE SeqsUpTo(_, _)
SeqsUpTo(S, n) ==
    IF n <= 0 THEN {<<>>}
    ELSE LET shorter == SeqsUpTo(S, n - 1)
         IN  shorter \cup {Append(s, x) : s \in {t \in shorter : Len(t) = n - 1}, x \in S}

\* Python s[:n]: n >= 0 keeps the first n items, n < 0 drops the last -n items
PySliceTo(s, n) ==
    LET k == IF n >= 0 THEN Min(n, Len(s)) ELSE Max(0, Len(s) + n)
    IN  SubSeq(s, 1, k)

\* Python b // 2 (floor division)
KeepBreadth(b) == b
FloorHalf(b) == b \div 2

\* list(dict.fromkeys(s)): the distinct values of s in order of first occurrence
RECURSIVE DedupLastWins(_)
DedupLastWins(s) ==
    IF s = <<>> THEN <<>>
    ELSE LET n == Len(s)
             init == SubSeq(s, 1, n - 1)
         IN  Append(DedupLastWins(SelectSeq(init, LAMBDA x : x # s[n])), s[n])

RECURSIVE DictFromKeys(_)
DictFromKeys(s) ==
    IF s = <<>> THEN <<>>
    ELSE LET n == Len(s)
             init == DictFromKeys(SubSeq(s, 1, n - 1))
         IN  IF \E j \in 1..Len(init) : init[j] = s[n] THEN init ELSE Append(init, s[n])

----------------------------------------------------------------------------
(* Data of deep_research.py *)

Findings == 1..MaxFinding
\* a document's url; 0 stands for the empty string, which line 170 filters out
DocUrls == 0..MaxUrl

EmptyResult == [learnings |-> <<>>, visited_urls |-> <<>>]

\* ResearchProgress(...) as constructed at lines 143-151; id tells objects apart
NewProgress(id, breadth, depth) ==
    [id |-> id,
     current_depth |-> depth, total_depth |-> depth,
     current_breadth |-> breadth, total_breadth |-> breadth,
     current_query |-> 0, total_queries |-> 0, completed_queries |-> 0]

\* the local state of one deep_research call right after lines 141-151
NewFrame(id, breadth, depth, learnings, visited_urls) ==
    [breadth |-> breadth, depth |-> depth,
     learnings |-> learnings, visited_urls |-> visited_urls,
     progress |-> NewProgress(id, breadth, depth),
     serp_queries |-> <<>>, i |-> 1, res |-> <<>>, new_learnings |-> <<>>,
     results |-> <<>>, contrib |-> <<>>, failed |-> {},
     merged |-> EmptyResult,
     pc |-> "plan"]

\* generate_serp_queries: the non-blank lines of the answer, cut by queries[:num_queries];
\* a query is named by the number of its line
GenerateSerpQueries(nlines, num_queries) ==
    PySliceTo([k \in 1..nlines |-> k], num_queries)

\* urls = [r.url for r in res if r.url]
UrlsOf(res) == SelectSeq(res, LAMBDA u : u # 0)

\* what client.search may return: up to `limit` documents
SearchResults == SeqsUpTo(DocUrls, Min(MaxDocs, SearchLimit))

\* what process_serp_result may return as learnings: learnings[:num_learnings]
ExtractedLearnings == SeqsUpTo(Findings, Min(MaxNew, NumLearnings))

\* report(update) at lines 153-157: the record after setattr, then the callback
Deliver(progress) == IF on_progress THEN <<progress>> ELSE delivered

\* where line 164 goes first: into the loop body, or past an empty loop
AlwaysSearch(serp_queries) == "search"
FirstPc(serp_queries) == IF serp_queries # <<>> THEN "search" ELSE "merge"

\* where the for loop of line 164 goes after the frame's i-th query
NextPc(f) == IF f.i + 1 <= Len(f.serp_queries) THEN "search" ELSE "merge"

\* try: ... except Exception at lines 165-169 encloses the search call alone
InTryNothing(pc) == FALSE
InTryWholeBody(pc) == pc \in {"search", "process", "call"}
InTry(pc) == pc = "search"

\* lines 172-173: what the incoming list holds once `incoming + new` was
\* evaluated; + builds a new list and leaves its operands as they were
ExtendedInPlace(incoming, new) == incoming \o new
AfterConcat(incoming, new) == incoming

\* merged.<field>.extend(r.<field>) for r in results (lines 191-193)
RECURSIVE ConcatField(_, _)
ConcatField(results, field) ==
    IF results = <<>> THEN <<>>
    ELSE ConcatField(SubSeq(results, 1, Len(results) - 1), field) \o Last(results)[field]

Top == stack[Len(stack)]
SetTop(f) == [stack EXCEPT ![Len(stack)] = f]

----------------------------------------------------------------------------
(* deep_research: the orchestrator as a state machine *)

InitResearch ==
    /\ breadth0 \in -1..MaxBreadth
    /\ depth0 \in 0..MaxDepth
    /\ on_progress \in BOOLEAN
    /\ stack = <<NewFrame(1, breadth0, depth0, <<>>, <<>>)>>
    /\ exc = "None"
    /\ outcome = "running"
    /\ result = <<>>
    /\ delivered = <<>>
    /\ nrecords = 1
    /\ nodes = <<1>>

Running == outcome = "running" /\ exc = "None" /\ stack # <<>>

\* lines 159-160: the planner answers with nlines non-blank lines
Plan(nlines) ==
    /\ Running
    /\ Top.pc = "plan"
    /\ LET f == Top
           serp_queries == GenerateSerpQueries(nlines, f.breadth)
           progress == [f.progress EXCEPT
                          !.total_queries = Len(serp_queries),
                          !.current_query = IF serp_queries # <<>>
                                            THEN serp_queries[1] ELSE 0]
       IN  /\ stack' = SetTop([f EXCEPT
                          !.serp_queries = serp_queries,
                          !.progress = progress,
                          !.i = 1,
                          !.pc = FirstPc(serp_queries)])
           /\ delivered' = Deliver(progress)
    /\ UNCHANGED <<breadth0, depth0, on_progress, exc, outcome, result, nrecords, nodes>>

\* line 159: the completion service raises inside generate_serp_queries
PlanRaises ==
    /\ Running
    /\ Top.pc = "plan"
    /\ exc' = "CompletionError"
    /\ UNCHANGED <<breadth0, depth0, on_progress, stack, outcome, result,
                   delivered, nrecords, nodes>>

\* line 166: client.search returns the documents res
Search(res) ==
    /\ Running
    /\ Top.pc = "search"
    /\ stack' = SetTop([Top EXCEPT !.res = res, !.pc = "process"])
    /\ UNCHANGED <<breadth0, depth0, on_progress, exc, outcome, result,
                   delivered, nrecords, nodes>>

\* line 166: client.search raises (line 47 missing key, line 50/51 request failure)
SearchRaises ==
    /\ Running
    /\ Top.pc = "search"
    /\ exc' = "SearchError"
    /\ UNCHANGED <<breadth0, depth0, on_progress, stack, outcome, result,
                   delivered, nrecords, nodes>>

\* lines 170-189 for one query whose search returned, given what extraction yields
Process(new_learnings) ==
    /\ Running
    /\ Top.pc = "process"
    /\ LET f == Top
           q == f.serp_queries[f.i]
           urls == UrlsOf(f.res)
           all_learnings == f.learnings \o new_learnings
           all_urls == f.visited_urls \o urls
           new_depth == f.depth - 1
           new_breadth == Max(1, FloorHalf(f.breadth))
           level == Len(stack) + 1
       IN  IF new_depth > 0
           THEN \* lines 177-185: the recursive call starts
                /\ stack' = Append(SetTop([f EXCEPT
                                       !.new_learnings = new_learnings,
                                       !.learnings = AfterConcat(@, new_learnings),
                                       !.visited_urls = AfterConcat(@, urls),
                                       !.pc = "call"]),
                                   NewFrame(nrecords + 1, new_breadth, new_depth,
                                            all_learnings, all_urls))
                /\ nrecords' = nrecords + 1
                /\ nodes' = IF level > Len(nodes) THEN Append(nodes, 1)
                            ELSE [nodes EXCEPT ![level] = @ + 1]
                /\ UNCHANGED delivered
           ELSE \* lines 188-189: terminal result, then report
                LET progress == [f.progress EXCEPT
                                   !.completed_queries = f.progress.completed_queries + 1]
                IN  /\ stack' = SetTop([f EXCEPT
                                   !.new_learnings = new_learnings,
                                   !.learnings = AfterConcat(@, new_learnings),
                                   !.visited_urls = AfterConcat(@, urls),
                                   !.results = Append(@, [learnings |-> all_learnings,
                                                          visited_urls |-> all_urls]),
                                   !.contrib = Append(@, q),
                                   !.progress = progress,
                                   !.i = f.i + 1,
                                   !.pc = NextPc(f)])
                    /\ delivered' = Deliver(progress)
                    /\ UNCHANGED <<nrecords, nodes>>
    /\ UNCHANGED <<breadth0, depth0, on_progress, exc, outcome, result>>

\* line 171: the completion service raises inside process_serp_result
ProcessRaises ==
    /\ Running
    /\ Top.pc = "process"
    /\ exc' = "CompletionError"
    /\ UNCHANGED <<breadth0, depth0, on_progress, stack, outcome, result,
                   delivered, nrecords, nodes>>

\* an exception in flight meets the top frame: caught by lines 167-169 when the
\* frame is inside the try block, else the frame is left and the caller sees it
Except ==
    /\ outcome = "running"
    /\ exc # "None"
    /\ stack # <<>>
    /\ LET f == Top
       IN  IF InTry(f.pc)
           THEN \* print(...); continue
                /\ stack' = SetTop([f EXCEPT
                                   !.failed = @ \cup {f.serp_queries[f.i]},
                                   !.i = f.i + 1,
                                   !.pc = NextPc(f)])
                /\ exc' = "None"
                /\ UNCHANGED outcome
           ELSE /\ stack' = SubSeq(stack, 1, Len(stack) - 1)
                /\ outcome' = IF Len(stack) = 1 THEN "raised" ELSE outcome
                /\ UNCHANGED exc
    /\ UNCHANGED <<breadth0, depth0, on_progress, result, delivered, nrecords, nodes>>

\* lines 190-195: concatenate the child results, then drop duplicates
Merge ==
    /\ Running
    /\ Top.pc = "merge"
    /\ LET f == Top
           Cat(field) == ConcatField(f.results, field)
       IN  stack' = SetTop([f EXCEPT
                       !.merged = [learnings |-> DictFromKeys(Cat("learnings")),
                                   visited_urls |-> DictFromKeys(Cat("visited_urls"))],
                       !.pc = "return"])
    /\ UNCHANGED <<breadth0, depth0, on_progress, exc, outcome, result,
                   delivered, nrecords, nodes>>

\* line 196, and in the caller lines 186 and 189
Return ==
    /\ Running
    /\ Top.pc = "return"
    /\ IF Len(stack) = 1
       THEN /\ stack' = <<>>
            /\ outcome' = "returned"
            /\ result' = <<Top.merged>>
            /\ UNCHANGED delivered
       ELSE LET sub_result == Top.merged
                p == stack[Len(stack) - 1]
                progress == [p.progress EXCEPT
                               !.completed_queries = p.progress.completed_queries + 1]
            IN  /\ stack' = [SubSeq(stack, 1, Len(stack) - 1) EXCEPT
                               ![Len(stack) - 1] = [p EXCEPT
                                   !.results = Append(@, sub_result),
                                   !.contrib = Append(@, p.serp_queries[p.i]),
                                   !.progress = progress,
                                   !.i = p.i + 1,
                                   !.pc = NextPc(p)]]
                /\ delivered' = Deliver(progress)
                /\ UNCHANGED <<outcome, result>>
    /\ UNCHANGED <<breadth0, depth0, on_progress, exc, nrecords, nodes>>

ChunkerIdle ==
    /\ chunk_size = 1
    /\ chunk_overlap = 0
    /\ text0 = <<>>
    /\ cstack = <<>>
    /\ cret = <<>>
    /\ status = "idle"

Init == InitResearch /\ ChunkerIdle

Next ==
    \/ \E nlines \in 0..MaxLines : Plan(nlines) /\ UNCHANGED cvars
    \/ PlanRaises /\ UNCHANGED cvars
    \/ \E res \in SearchResults : Search(res) /\ UNCHANGED cvars
    \/ SearchRaises /\ UNCHANGED cvars
    \/ \E new_learnings \in ExtractedLearnings : Process(new_learnings) /\ UNCHANGED cvars
    \/ ProcessRaises /\ UNCHANGED cvars
    \/ Except /\ UNCHANGED cvars
    \/ Merge /\ UNCHANGED cvars
    \/ Return /\ UNCHANGED cvars

Spec == Init /\ [][Next]_vars

----------------------------------------------------------------------------
(* text_splitter.py: strings are sequences of one-character strings *)

\* characters of the texts tried; "LF" is the newline character
Alphabet == {"a", ".", " ", "LF"}
Whitespace == {" ", "LF"}

\* self.separators, line 56
Separators ==
    << <<"LF", "LF">>, <<"LF">>, <<".">>, <<",">>, <<">">>, <<"<">>, <<" ">>, <<>> >>

\* s in text, for a non-empty s
Contains(text, s) ==
    \E i \in 1..(Len(text) - Len(s) + 1) : SubSeq(text, i, i + Len(s) - 1) = s

\* lines 62-66: the first separator that is "" or occurs in the text
ChooseSeparator(text) ==
    LET hits == {j \in 1..Len(Separators) :
                    Separators[j] = <<>> \/ Contains(text, Separators[j])}
    IN  IF hits = {} THEN Last(Separators)
        ELSE Separators[CHOOSE j \in hits : \A h \in hits : j <= h]

\* str.split(sep) for a non-empty sep: leftmost matches, empty pieces kept
RECURSIVE SplitFrom(_, _, _, _, _)
SplitFrom(text, sep, i, piece, acc) ==
    IF i > Len(text) THEN Append(acc, piece)
    ELSE IF i + Len(sep) - 1 <= Len(text) /\ SubSeq(text, i, i + Len(sep) - 1) = sep
         THEN SplitFrom(text, sep, i + Len(sep), <<>>, Append(acc, piece))
         ELSE SplitFrom(text, sep, i + 1, Append(piece, text[i]), acc)

\* line 68: text.split(separator) if separator else list(text)
SplitOn(text, separator) ==
    IF separator # <<>> THEN SplitFrom(text, separator, 1, <<>>, <<>>)
    ELSE [i \in 1..Len(text) |-> <<text[i]>>]

\* where the pieces of SplitOn(text, separator) start in text, counted from 0
RECURSIVE OffsetsFrom(_, _, _, _, _)
OffsetsFrom(text, sep, i, start, acc) ==
    IF i > Len(text) THEN Append(acc, start)
    ELSE IF i + Len(sep) - 1 <= Len(text) /\ SubSeq(text, i, i + Len(sep) - 1) = sep
         THEN OffsetsFrom(text, sep, i + Len(sep), i + Len(sep) - 1, Append(acc, start))
         ELSE OffsetsFrom(text, sep, i + 1, start, acc)

PieceOffsets(text, separator) ==
    IF separator # <<>> THEN OffsetsFrom(text, separator, 1, 0, <<>>)
    ELSE [i \in 1..Len(text) |-> i - 1]

\* separator.join(docs)
RECURSIVE Join(_, _)
Join(docs, separator) ==
    IF docs = <<>> THEN <<>>
    ELSE IF Len(docs) = 1 THEN docs[1]
         ELSE Join(SubSeq(docs, 1, Len(docs) - 1), separator) \o separator \o Last(docs)

\* str.strip(): whitespace removed at both ends
RECURSIVE LStrip(_)
LStrip(t) ==
    IF t # <<>> /\ t[1] \in Whitespace THEN LStrip(SubSeq(t, 2, Len(t))) ELSE t

RECURSIVE RStrip(_)
RStrip(t) ==
    IF t # <<>> /\ Last(t) \in Whitespace THEN RStrip(SubSeq(t, 1, Len(t) - 1)) ELSE t

Strip(t) == RStrip(LStrip(t))

\* _join_docs, lines 22-24; the empty string stands for None
JoinDocs(docs, separator) == Strip(Join(docs, separator))

\* the while loop of lines 41-45: [current, total] once the loop has ended;
\* length is len(d) of the piece about to be added
KeepBuffer(current, total, length) == [current |-> current, total |-> total]

RECURSIVE EvictToOverlap(_, _, _)
EvictToOverlap(current, total, length) ==
    IF total > chunk_overlap
    THEN EvictToOverlap(SubSeq(current, 2, Len(current)), total - Len(current[1]), length)
    ELSE [current |-> current, total |-> total]

RECURSIVE Evict(_, _, _)
Evict(current, total, length) ==
    IF total > chunk_overlap \/ (total + length > chunk_size /\ total > 0)
    THEN Evict(SubSeq(current, 2, Len(current)), total - Len(current[1]), length)
    ELSE [current |-> current, total |-> total]

\* a frame of split_text (fn = "split_text") or merge_splits (fn = "merge_splits").
\* A chunk is kept as [doc, pieces, first, start]: doc is the string the code
\* holds; pieces the number of buffered pieces it was joined from; first the
\* index in merge_splits' argument of the first of them; start where that piece
\* starts in the source text. base, offs and good_offs record where the text
\* and the pieces of a frame come from: base is the offset of the frame's text
\* in text0, offs[j] that of splits[j], good_offs[j] that of good_splits[j].
SplitFrame(text, base) ==
    [fn |-> "split_text", text |-> text, separator |-> <<>>, splits |-> <<>>, k |-> 1,
     good_splits |-> <<>>, final_chunks |-> <<>>,
     docs |-> <<>>, current |-> <<>>, total |-> 0, warned |-> FALSE,
     base |-> base, offs |-> <<>>, good_offs |-> <<>>,
     pc |-> "start"]

MergeFrame(splits, separator, offs) ==
    [fn |-> "merge_splits", text |-> <<>>, separator |-> separator, splits |-> splits, k |-> 1,
     good_splits |-> <<>>, final_chunks |-> <<>>,
     docs |-> <<>>, current |-> <<>>, total |-> 0, warned |-> FALSE,
     base |-> 0, offs |-> offs, good_offs |-> <<>>,
     pc |-> IF splits = <<>> THEN "end" ELSE "loop"]

\* the chunk joined from the buffer of the merge_splits frame f, as doc
Chunk(f, doc) ==
    LET first == f.k - Len(f.current)
    IN  [doc |-> doc, pieces |-> Len(f.current), first |-> first,
         start |-> IF first <= Len(f.offs) THEN f.offs[first] ELSE 0]

CTop == cstack[Len(cstack)]
CSetTop(f) == [cstack EXCEPT ![Len(cstack)] = f]

\* a call: the new frame goes on the stack unless the interpreter's limit is hit
Push(caller, callee) ==
    IF Len(cstack) >= MaxFrames
    THEN /\ status' = "RecursionError"
         /\ UNCHANGED cstack
    ELSE /\ cstack' = Append(CSetTop(caller), callee)
         /\ UNCHANGED status

InitSplit ==
    /\ chunk_size \in 1..MaxChunkSize
    /\ chunk_overlap \in 0..MaxChunkSize
    /\ text0 \in SeqsUpTo(Alphabet, MaxLen)
    /\ cstack = <<>>
    /\ cret = <<>>
    /\ status = "new"

\* line 5: the configurations the constructor refuses
OverlapAboveSize(size, overlap) == overlap > size
OverlapTooLarge(size, overlap) == overlap >= size

\* TextSplitter.__init__, lines 4-8 (reached through line 55)
Construct ==
    /\ status = "new"
    /\ status' = IF OverlapTooLarge(chunk_size, chunk_overlap) THEN "ValueError" ELSE "ready"
    /\ UNCHANGED <<chunk_size, chunk_overlap, text0, cstack, cret>>

\* the caller's splitter.split_text(text0)
SplitCall ==
    /\ status = "ready"
    /\ cstack' = <<SplitFrame(text0, 0)>>
    /\ status' = "running"
    /\ UNCHANGED <<chunk_size, chunk_overlap, text0, cret>>

CRunning(fn, pc) ==
    status = "running" /\ cstack # <<>> /\ CTop.fn = fn /\ CTop.pc = pc

\* lines 59-71
SplitStart ==
    /\ CRunning("split_text", "start")
    /\ LET f == CTop
           separator == ChooseSeparator(f.text)
           splits == SplitOn(f.text, separator)
       IN  cstack' = CSetTop(
               IF f.text = <<>> THEN [f EXCEPT !.pc = "return"]
               ELSE [f EXCEPT !.separator = separator, !.splits = splits, !.k = 1,
                              !.offs = [j \in 1..Len(splits) |->
                                           f.base + PieceOffsets(f.text, separator)[j]],
                              !.pc = "loop"])
    /\ UNCHANGED <<chunk_size, chunk_overlap, text0, cret, status>>

\* line 73: the pieces that are buffered for merge_splits
FitsChunk(s) == Len(s) <= chunk_size
GoodSplit(s) == Len(s) < chunk_size

\* lines 72-77 for the piece splits[k]; a piece that is not good first
\* flushes the buffered good pieces (line 77, a call of merge_splits)
SplitPiece ==
    /\ CRunning("split_text", "loop")
    /\ CTop.k <= Len(CTop.splits)
    /\ LET f == CTop
           s == f.splits[f.k]
       IN  IF GoodSplit(s)
           THEN /\ cstack' = CSetTop([f EXCEPT !.good_splits = Append(@, s),
                                                !.good_offs = Append(@, f.offs[f.k]),
                                                !.k = f.k + 1])
                /\ UNCHANGED status
           ELSE IF f.good_splits # <<>>
                THEN Push([f EXCEPT !.pc = "flush"],
                          MergeFrame(f.good_splits, f.separator, f.good_offs))
                ELSE /\ cstack' = CSetTop([f EXCEPT !.pc = "recurse"])
                     /\ UNCHANGED status
    /\ UNCHANGED <<chunk_size, chunk_overlap, text0, cret>>

\* line 79: self.split_text(s) for the piece that is not good
SplitRecurse ==
    /\ CRunning("split_text", "recurse")
    /\ LET f == CTop
       IN  Push([f EXCEPT !.pc = "recursing"], SplitFrame(f.splits[f.k], f.offs[f.k]))
    /\ UNCHANGED <<chunk_size, chunk_overlap, text0, cret>>

\* lines 80-82 once the loop is over
SplitEnd ==
    /\ CRunning("split_text", "loop")
    /\ CTop.k > Len(CTop.splits)
    /\ LET f == CTop
       IN  IF f.good_splits # <<>>
           THEN Push([f EXCEPT !.pc = "final_flush"],
                     MergeFrame(f.good_splits, f.separator, f.good_offs))
           ELSE /\ cstack' = CSetTop([f EXCEPT !.pc = "return"])
                /\ UNCHANGED status
    /\ UNCHANGED <<chunk_size, chunk_overlap, text0, cret>>

\* one iteration of the for loop of merge_splits, lines 30-47
MergePiece ==
    /\ CRunning("merge_splits", "loop")
    /\ LET f == CTop
           d == f.splits[f.k]
           length == Len(d)
           full == f.total + length >= chunk_size
           doc == JoinDocs(f.current, f.separator)
           docs == IF full /\ f.current # <<>> /\ doc # <<>>
                   THEN Append(f.docs, Chunk(f, doc))
                   ELSE f.docs
           kept == IF full /\ f.current # <<>>
                   THEN Evict(f.current, f.total, length)
                   ELSE [current |-> f.current, total |-> f.total]
       IN  cstack' = CSetTop([f EXCEPT
                        !.warned = @ \/ (full /\ f.total > chunk_size),
                        !.docs = docs,
                        !.current = Append(kept.current, d),
                        !.total = kept.total + length,
                        !.k = f.k + 1,
                        !.pc = IF f.k + 1 <= Len(f.splits) THEN "loop" ELSE "end"])
    /\ UNCHANGED <<chunk_size, chunk_overlap, text0, cret, status>>

\* lines 48-51: the last buffer becomes a chunk
MergeEnd ==
    /\ CRunning("merge_splits", "end")
    /\ LET f == CTop
           doc == JoinDocs(f.current, f.separator)
       IN  cstack' = CSetTop([f EXCEPT
                        !.docs = IF doc # <<>>
                                 THEN Append(@, Chunk(f, doc))
                                 ELSE @,
                        !.pc = "return"])
    /\ UNCHANGED <<chunk_size, chunk_overlap, text0, cret, status>>

\* final_chunks.extend(value), lines 77, 79 and 81
ExtendInFront(final_chunks, value) == value \o final_chunks
Extend(final_chunks, value) == final_chunks \o value

\* a return: the value goes to the caller's final_chunks.extend(...) or, from
\* the outermost split_text, to the caller of the splitter
CReturn ==
    /\ status = "running"
    /\ cstack # <<>>
    /\ CTop.pc = "return"
    /\ LET f == CTop
           value == IF f.fn = "merge_splits" THEN f.docs ELSE f.final_chunks
       IN  IF Len(cstack) = 1
           THEN /\ cstack' = <<>>
                /\ cret' = value
                /\ status' = "done"
           ELSE LET c == cstack[Len(cstack) - 1]
                    after == CASE c.pc = "flush" ->
                                     [c EXCEPT !.final_chunks = Extend(@, value),
                                               !.good_splits = <<>>,
                                               !.good_offs = <<>>,
                                               !.pc = "recurse"]
                               [] c.pc = "recursing" ->
                                     [c EXCEPT !.final_chunks = Extend(@, value),
                                               !.k = c.k + 1,
                                               !.pc = "loop"]
                               [] OTHER ->
                                     [c EXCEPT !.final_chunks = Extend(@, value),
                                               !.pc = "return"]
                IN  /\ cstack' = [SubSeq(cstack, 1, Len(cstack) - 1) EXCEPT
                                     ![Len(cstack) - 1] = after]
                    /\ UNCHANGED <<cret, status>>
    /\ UNCHANGED <<chunk_size, chunk_overlap, text0>>

ResearchIdle ==
    /\ breadth0 = 0
    /\ depth0 = 0
    /\ on_progress = FALSE
    /\ stack = <<>>
    /\ exc = "None"
    /\ outcome = "idle"
    /\ result = <<>>
    /\ delivered = <<>>
    /\ nrecords = 0
    /\ nodes = <<>>

InitChunker == InitSplit /\ ResearchIdle

NextSplit ==
    \/ Construct /\ UNCHANGED rvars
    \/ SplitCall /\ UNCHANGED rvars
    \/ SplitStart /\ UNCHANGED rvars
    \/ SplitPiece /\ UNCHANGED rvars
    \/ SplitRecurse /\ UNCHANGED rvars
    \/ SplitEnd /\ UNCHANGED rvars
    \/ MergePiece /\ UNCHANGED rvars
    \/ MergeEnd /\ UNCHANGED rvars
    \/ CReturn /\ UNCHANGED rvars

SpecSplit == InitChunker /\ [][NextSplit]_vars

\* the string of n characters c
Repeat(c, n) == [j \in 1..n |-> c]

\* pieces tried in direct calls of merge_splits: runs of a letter, empty
\* included, and a blank piece
PieceValues == {Repeat("a", n) : n \in 0..MaxPieceLen} \cup {<<" ">>}

\* separators tried in direct calls of merge_splits: "", " " and "\n\n"
MergeSeparators == {<<>>, <<" ">>, <<"LF", "LF">>}

\* merge_splits(["aaaa", "bbbb", "cccc"], "") on a splitter with
\* chunk_size = 10 and chunk_overlap = 3
ExampleCall ==
    [chunk_size |-> 10, chunk_overlap |-> 3,
     splits |-> <<Repeat("a", 4), Repeat("b", 4), Repeat("c", 4)>>,
     separator |-> <<>>]

\* the calls merge_splits(splits, separator) tried, each on a splitter that
\* the constructor accepted
MergeCalls ==
    {[chunk_size |-> size, chunk_overlap |-> overlap,
      splits |-> splits, separator |-> separator] :
        size \in 1..MaxChunkSize, overlap \in 0..(MaxChunkSize - 1),
        splits \in SeqsUpTo(PieceValues, MaxPieces), separator \in MergeSeparators}

\* a caller's splitter.merge_splits(splits, separator), line 26; the pieces
\* are their own source: piece j starts at position j
InitMerge ==
    \E c \in {m \in MergeCalls : ~OverlapTooLarge(m.chunk_size, m.chunk_overlap)}
            \cup {ExampleCall} :
        /\ chunk_size = c.chunk_size
        /\ chunk_overlap = c.chunk_overlap
        /\ text0 = <<>>
        /\ cstack = <<MergeFrame(c.splits, c.separator, [j \in 1..Len(c.splits) |-> j])>>
        /\ cret = <<>>
        /\ status = "running"

InitChunk == InitChunker \/ (InitMerge /\ ResearchIdle)

SpecChunk == InitChunk /\ [][NextSplit]_vars

----------------------------------------------------------------------------
(* Claims about deep_research, checked under Spec *)

\* b >> i on Python integers (arithmetic shift: floor of b / 2^i)
Shr(b, i) == b \div (2 ^ i)

Frames == {stack[k] : k \in 1..Len(stack)}

\* the planned queries of s that are not in the set failed, in order
NotFailed(s, failed) == SelectSeq(s, LAMBDA q : q \notin failed)

\* C1: a search that raises is skipped and nothing else is: the call never ends
\* by a search error, and in every node the queries that contributed a child
\* result are exactly the planned queries met so far whose search did not
\* raise, in planned order; when the loop is over every planned query was met.
ThmC1 ==
    /\ outcome = "raised" => exc = "CompletionError"
    /\ \A f \in Frames :
          /\ f.contrib = NotFailed(SubSeq(f.serp_queries, 1, f.i - 1), f.failed)
          /\ Len(f.results) = Len(f.contrib)
          /\ f.pc \in {"merge", "return"} =>
                f.contrib = NotFailed(f.serp_queries, f.failed)

\* query 1 failed, query 2 of the same node still contributed, node about to return
WitC1 ==
    /\ stack # <<>>
    /\ Top.pc = "return"
    /\ Top.failed = {1}
    /\ Top.contrib = <<2>>
    /\ Len(Top.results) = 1

FirstIndex(s, v) == CHOOSE j \in 1..Len(s) : s[j] = v /\ \A k \in 1..(j - 1) : s[k] # v

\* r holds the values of s once each, ordered by their first occurrence in s
FirstOccurrenceOrder(s, r) ==
    /\ \A a, b \in 1..Len(r) : a # b => r[a] # r[b]
    /\ {r[a] : a \in 1..Len(r)} = {s[j] : j \in 1..Len(s)}
    /\ \A a, b \in 1..Len(r) : a < b => FirstIndex(s, r[a]) < FirstIndex(s, r[b])

\* C2: what a node returns has no duplicates, and its values stand in the order
\* of their first occurrence in the concatenation of the child results.
ThmC2 ==
    /\ \A f \in Frames : f.pc = "return" =>
          /\ FirstOccurrenceOrder(ConcatField(f.results, "learnings"), f.merged.learnings)
          /\ FirstOccurrenceOrder(ConcatField(f.results, "visited_urls"), f.merged.visited_urls)
    /\ result # <<>> =>
          /\ \A a, b \in 1..Len(result[1].learnings) :
                a # b => result[1].learnings[a] # result[1].learnings[b]
          /\ \A a, b \in 1..Len(result[1].visited_urls) :
                a # b => result[1].visited_urls[a] # result[1].visited_urls[b]

\* a node returns where a later child repeats a learning of an earlier child
WitC2 ==
    /\ stack # <<>>
    /\ Top.pc = "return"
    /\ ConcatField(Top.results, "learnings") = <<1, 2, 1>>
    /\ Top.merged.learnings = <<1, 2>>

\* C3 (as claimed): in every node completed_queries counts the planned queries
\* met so far, skipped ones included, so a returning root has
\* completed_queries = total_queries.
CtrC3 ==
    /\ \A f \in Frames : f.progress.completed_queries = f.i - 1
    /\ (stack # <<>> /\ stack[1].pc = "return") =>
          stack[1].progress.completed_queries = stack[1].progress.total_queries

\* C6 (as claimed): the frame at level i runs with breadth max(1, breadth0 >> i)
\* and depth depth0 - i, the root included.
CtrC6 ==
    \A k \in 1..Len(stack) :
        /\ stack[k].breadth = Max(1, Shr(breadth0, k - 1))
        /\ stack[k].depth = depth0 - (k - 1)

\* the parameters of every frame on the stack, by its level k - 1
ShrinkInv ==
    \A k \in 1..Len(stack) :
        /\ stack[k].breadth = IF k = 1 THEN breadth0 ELSE Max(1, Shr(breadth0, k - 1))
        /\ stack[k].depth = depth0 - (k - 1)
        /\ k > 1 => stack[k].depth > 0
        /\ stack[k].pc = "call" => stack[k].depth - 1 > 0
        /\ (stack[k].pc = "call" /\ exc = "None") => k < Len(stack)
        /\ k < Len(stack) => stack[k].pc = "call"

\* a step that handles the extraction of one query either starts the
\* recursive call (a new frame at the planner) or appends the terminal result
RecurseOrTerminal ==
    (stack # <<>> /\ exc = "None" /\ exc' = "None" /\ Top.pc = "process") =>
        IF Top.depth - 1 > 0
        THEN /\ Len(stack') = Len(stack) + 1
             /\ stack'[Len(stack')].pc = "plan"
             /\ stack'[Len(stack)].results = Top.results
        ELSE /\ Len(stack') = Len(stack)
             /\ Len(stack'[Len(stack)].results) = Len(Top.results) + 1
             /\ stack'[Len(stack)].pc # "plan"
             /\ nrecords' = nrecords

\* C6 (amended): the root runs with breadth0 itself; the frame at level i >= 1
\* runs with breadth max(1, breadth0 >> i); every frame at level i has depth
\* depth0 - i; a node recurses for a processed query exactly when
\* depth - 1 > 0 and otherwise appends the terminal result.
ThmC6 == []ShrinkInv /\ [][RecurseOrTerminal]_vars

\* three nested calls: breadths 2, 1, 1 and depths 3, 2, 1
WitC6 ==
    /\ Len(stack) = 3
    /\ breadth0 = 2
    /\ depth0 = 3
    /\ stack[3].breadth = 1
    /\ stack[3].depth = 1

\* breadth of the nodes at a level, as claim C6 gives it
LevelBreadth(level) == IF level = 0 THEN breadth0 ELSE Max(1, Shr(breadth0, level))

RECURSIVE BreadthProduct(_)
BreadthProduct(level) ==
    IF level <= 0 THEN 1 ELSE BreadthProduct(level - 1) * LevelBreadth(level - 1)

\* C7 (as claimed): the nesting never exceeds max(1, depth0) and the number of
\* nodes at level i is at most the product of the breadths of levels 0..i-1.
CtrC7 ==
    /\ Len(stack) <= Max(1, depth0)
    /\ \A k \in 1..Len(nodes) : nodes[k] <= BreadthProduct(k - 1)

\* one step with an exception in flight: a completion error leaves the top
\* frame and stays in flight; an exception that is cleared was a search error
PropagatesC8 ==
    /\ exc = "CompletionError" =>
          /\ exc' = "CompletionError"
          /\ Len(stack') = Len(stack) - 1
          /\ result' = <<>>
          /\ outcome' = IF stack' = <<>> THEN "raised" ELSE "running"
    /\ (exc # "None" /\ exc' = "None") => exc = "SearchError"

\* C8: an error of the completion service (planning or extraction, at any
\* node) is never caught: once in flight it stays in flight, leaves one frame
\* per step, and ends the top-level call as raised with no ResearchResult;
\* a search error is the only exception that is swallowed.
ThmC8 == [][PropagatesC8]_vars

\* the error was raised in a nested call and has just left it: the caller,
\* waiting at its recursive call, is next
WitC8 ==
    /\ exc = "CompletionError"
    /\ Len(stack) = 1
    /\ stack[1].pc = "call"
    /\ stack[1].results # <<>>

\* C9 (as claimed): one Progress record per top-level invocation; whatever the
\* observer receives is the root's record with the root's totals.
CtrC9 ==
    /\ nrecords = 1
    /\ delivered # <<>> =>
          /\ delivered[1].id = 1
          /\ delivered[1].total_depth = depth0
          /\ delivered[1].total_breadth = breadth0

\* C10 (as claimed): completed_queries never decreases from one delivery to
\* the next.
CtrC10 ==
    [][(delivered # <<>> /\ delivered' # <<>>) =>
          delivered'[1].completed_queries >= delivered[1].completed_queries]_vars

\* C13 (as claimed): whatever integer the breadth of a node is and whatever
\* the completion service answers, the planner hands the node at most
\* `breadth` queries (none when breadth is 0 or negative), so the node issues
\* at most `breadth` searches of its own.
CtrC13 ==
    \A f \in Frames :
        /\ Len(f.serp_queries) <= Max(0, f.breadth)
        /\ f.i - 1 <= Max(0, f.breadth)

\* what a running child was given: its caller's incoming lists followed by
\* what the caller extracted for the query the child was called for
IsolationInv ==
    /\ stack # <<>> => stack[1].learnings = <<>> /\ stack[1].visited_urls = <<>>
    /\ \A k \in 2..Len(stack) :
          /\ stack[k].learnings = stack[k - 1].learnings \o stack[k - 1].new_learnings
          /\ stack[k].visited_urls = stack[k - 1].visited_urls \o UrlsOf(stack[k - 1].res)

\* no step changes the incoming lists of a call in progress, and a terminal
\* result is the incoming lists followed by this query's extraction
IsolationStep ==
    /\ \A k \in 1..Min(Len(stack), Len(stack')) :
          /\ stack'[k].learnings = stack[k].learnings
          /\ stack'[k].visited_urls = stack[k].visited_urls
    /\ (stack # <<>> /\ exc = "None" /\ exc' = "None" /\ Top.pc = "process"
            /\ Len(stack') = Len(stack)) =>
          LET g == stack'[Len(stack)]
          IN  Last(g.results) =
                  [learnings |-> Top.learnings \o g.new_learnings,
                   visited_urls |-> Top.visited_urls \o UrlsOf(Top.res)]

\* C16: what a node passes to the recursive call, or puts in the terminal
\* result, for its i-th query is its own incoming findings and visited
\* sources followed by what was extracted for query i alone, whatever the
\* sibling queries before it and their subtrees found; the incoming lists
\* stay as they were during the whole call.
ThmC16 == []IsolationInv /\ [][IsolationStep]_vars

\* the child for the second query runs with the second query's finding alone,
\* although the first query's subtree returned another finding
WitC16 ==
    /\ Len(stack) = 2
    /\ stack[1].i = 2
    /\ stack[1].results = <<[learnings |-> <<1>>, visited_urls |-> <<1>>]>>
    /\ stack[1].learnings = <<>>
    /\ stack[2].learnings = <<2>>
    /\ stack[2].visited_urls = <<>>

\* the values of the sequence s
Range(s) == {s[j] : j \in 1..Len(s)}

\* C17 (as claimed): what a call returns holds every finding and visited
\* source that was passed into it and everything its child results hold
\* (which, a child being given the caller's extraction, covers every finding
\* extracted in the subtree), whatever the plans and the failed searches.
CtrC17 ==
    \A f \in Frames : f.pc = "return" =>
        /\ Range(f.learnings) \subseteq Range(f.merged.learnings)
        /\ Range(f.visited_urls) \subseteq Range(f.merged.visited_urls)
        /\ \A j \in 1..Len(f.results) :
              /\ Range(f.results[j].learnings) \subseteq Range(f.merged.learnings)
              /\ Range(f.results[j].visited_urls) \subseteq Range(f.merged.visited_urls)

\* a node whose plan came back empty: nothing searched, extracted or
\* collected, totals published as 0 and none, and only merge and return left
EmptyPlanInv ==
    \A f \in Frames : (f.pc # "plan" /\ f.serp_queries = <<>>) =>
        /\ f.pc \in {"merge", "return"}
        /\ f.i = 1 /\ f.res = <<>> /\ f.results = <<>> /\ f.failed = {}
        /\ f.progress.total_queries = 0
        /\ f.progress.current_query = 0
        /\ f.progress.completed_queries = 0

\* the steps of such a node: the empty plan is published; no call is made and
\* nothing is raised; the return ends the top-level call with a result or
\* moves the caller on to its next query
EmptyPlanStep ==
    /\ (stack # <<>> /\ exc = "None" /\ Top.pc = "plan" /\ Len(stack') = Len(stack)
            /\ stack'[Len(stack)].pc # "plan"
            /\ stack'[Len(stack)].serp_queries = <<>> /\ on_progress) =>
          /\ delivered' = <<stack'[Len(stack)].progress>>
          /\ delivered'[1].total_queries = 0
          /\ delivered'[1].current_query = 0
    /\ (stack # <<>> /\ exc = "None" /\ Top.pc # "plan" /\ Top.serp_queries = <<>>) =>
          /\ exc' = "None"
          /\ nrecords' = nrecords
          /\ Len(stack') <= Len(stack)
          /\ Top.pc = "return" =>
                IF Len(stack) = 1
                THEN outcome' = "returned" /\ Len(result') = 1
                ELSE LET p == stack[Len(stack) - 1]
                         q == stack'[Len(stack) - 1]
                     IN  /\ outcome' = "running"
                         /\ Len(stack') = Len(stack) - 1
                         /\ q.results = Append(p.results, Top.merged)
                         /\ q.i = p.i + 1
                         /\ q.pc = NextPc(p)

\* C14: a node whose planner returns no query issues no search, no extraction
\* and no recursive call, publishes total_queries = 0 with current_query =
\* none, and returns a ResearchResult normally; its caller goes on with its
\* next query.
ThmC14 == []EmptyPlanInv /\ [][EmptyPlanStep]_vars

\* a nested call planned nothing, told the observer so, and is about to return
WitC14 ==
    /\ Len(stack) = 2
    /\ Top.pc = "return"
    /\ Top.serp_queries = <<>>
    /\ Top.learnings # <<>>
    /\ stack[1].i < Len(stack[1].serp_queries)
    /\ delivered = <<Top.progress>>

----------------------------------------------------------------------------
(* Claims about the chunker, checked under SpecSplit *)

CFrames == {cstack[k] : k \in 1..Len(cstack)}

\* C4 (as claimed): every chunk split_text returns is at most chunk_size long,
\* unless it is one single piece; a chunk joined from several pieces never
\* exceeds chunk_size.
CtrC4 ==
    status = "done" =>
        \A j \in 1..Len(cret) : Len(cret[j].doc) <= chunk_size \/ cret[j].pieces = 1

\* C5 (as claimed): split_text terminates for every accepted configuration:
\* each recursive call works on a strictly shorter text than its caller, and
\* the recursion never exhausts the call stack.
CtrC5 ==
    /\ status # "RecursionError"
    /\ \A k \in 1..Len(cstack) : \A j \in (k + 1)..Len(cstack) :
          (cstack[k].fn = "split_text" /\ cstack[j].fn = "split_text") =>
              Len(cstack[j].text) < Len(cstack[k].text)

\* what construction leaves behind: a refused configuration has no splitter,
\* so nothing is ever split; a splitter that exists has overlap < size
ConstructInv ==
    /\ status = "ValueError" =>
          chunk_overlap >= chunk_size /\ cstack = <<>> /\ cret = <<>>
    /\ status \in {"ready", "running", "done", "RecursionError"} =>
          chunk_overlap < chunk_size

\* the check is made by the constructor and by no later step
CheckedOnce ==
    /\ status = "new" =>
          status' = IF chunk_overlap >= chunk_size THEN "ValueError" ELSE "ready"
    /\ status # "new" => status' # "ValueError"

\* C11: constructing a splitter with chunk_overlap >= chunk_size (equality
\* included) fails with an error and leaves no splitter; with
\* chunk_overlap < chunk_size it succeeds; the configuration is checked at
\* construction only, never again by split_text or merge_splits.
ThmC11 == []ConstructInv /\ [][CheckedOnce]_vars

\* the equal case was refused
WitC11 ==
    /\ status = "ValueError"
    /\ chunk_overlap = chunk_size
    /\ chunk_size = 2

----------------------------------------------------------------------------
(* Claims about merge_splits and split_text, checked under SpecChunk *)

MergeFrames == {f \in CFrames : f.fn = "merge_splits"}

\* sum of the lengths of the pieces s[a..b]
RECURSIVE SumLen(_, _, _)
SumLen(s, a, b) == IF a > b THEN 0 ELSE Len(s[a]) + SumLen(s, a + 1, b)

\* index of the last piece of chunk c
LastPiece(c) == c.first + c.pieces - 1

\* C12 (as claimed): with chunk_overlap > 0, of two adjacent chunks of one
\* merge_splits call the later one opens with trailing pieces of the earlier
\* one: the buffer is not cleared entirely when a chunk is finalized.
CtrC12 ==
    chunk_overlap > 0 =>
        \A f \in MergeFrames : \A j \in 1..(Len(f.docs) - 1) :
            f.docs[j + 1].first <= LastPiece(f.docs[j])

\* a chunk is the stripped join of a run of consecutive pieces; of two
\* adjacent chunks the later starts no earlier and ends later, and the pieces
\* they share are at most chunk_overlap long in total
AdjacentChunks ==
    \A f \in MergeFrames :
        /\ \A j \in 1..Len(f.docs) :
              LET c == f.docs[j]
              IN  /\ c.pieces >= 1 /\ c.first >= 1 /\ LastPiece(c) <= Len(f.splits)
                  /\ c.doc = JoinDocs(SubSeq(f.splits, c.first, LastPiece(c)), f.separator)
        /\ \A j \in 1..(Len(f.docs) - 1) :
              LET A == f.docs[j]
                  B == f.docs[j + 1]
              IN  /\ A.first <= B.first
                  /\ LastPiece(A) < LastPiece(B)
                  /\ SumLen(f.splits, B.first, LastPiece(A)) <= chunk_overlap

\* the call of the example, once its loop is over, has built "aaaabbbb" from
\* pieces 1-2 and "cccc" from piece 3
ExampleChunks ==
    \A f \in MergeFrames :
        (chunk_size = ExampleCall.chunk_size /\ f.splits = ExampleCall.splits
            /\ f.pc = "return") =>
            /\ Len(f.docs) = 2
            /\ f.docs[1].doc = Repeat("a", 4) \o Repeat("b", 4)
            /\ f.docs[1].first = 1 /\ f.docs[1].pieces = 2
            /\ f.docs[2].doc = Repeat("c", 4)
            /\ f.docs[2].first = 3 /\ f.docs[2].pieces = 1

\* C12 (amended): adjacent chunks A, B of one merge_splits call are joined
\* from runs of consecutive pieces, B starting no earlier than A and ending
\* later; the pieces of A that also open B are whole pieces of at most
\* chunk_overlap characters in total, possibly none. In the example
\* (chunk_size 10, overlap 3, pieces "aaaa", "bbbb", "cccc", separator "")
\* the chunks are "aaaabbbb" and "cccc" and share nothing.
ThmC12 == AdjacentChunks /\ ExampleChunks

\* the example call has returned its two chunks
WitC12 ==
    /\ status = "done"
    /\ chunk_size = ExampleCall.chunk_size
    /\ chunk_overlap = ExampleCall.chunk_overlap
    /\ Len(cret) = 2
    /\ cret[2].doc = Repeat("c", 4)

\* the chunks of c stand in the order of their source positions
InSourceOrder(c) == \A a, b \in 1..Len(c) : a < b => c[a].start <= c[b].start

\* the recorded positions are where the pieces are in text0: a frame's text and
\* each of its pieces is the part of text0 found at the recorded offset
PiecesAnchored ==
    \A f \in CFrames : f.fn = "split_text" =>
        /\ f.text = SubSeq(text0, f.base + 1, f.base + Len(f.text))
        /\ Len(f.offs) = Len(f.splits)
        /\ \A j \in 1..Len(f.splits) :
              f.splits[j] = SubSeq(text0, f.offs[j] + 1, f.offs[j] + Len(f.splits[j]))
        /\ \A j \in 1..(Len(f.splits) - 1) : f.offs[j] < f.offs[j + 1]

\* a chunk returned by split_text is the stripped stretch of text0 that
\* begins where its first piece starts
ChunksAnchored ==
    (status = "done" /\ text0 # <<>>) =>
        \A j \in 1..Len(cret) : \E n \in 0..Len(text0) :
            cret[j].doc = Strip(SubSeq(text0, cret[j].start + 1, cret[j].start + n))

\* C15: the chunks split_text returns are in the order of the text: of two
\* chunks the earlier one's first piece starts no later in the source than
\* the later one's, within one merge_splits call, across the flushes of
\* buffered pieces and across the recursive splits of oversized pieces.
ThmC15 ==
    /\ PiecesAnchored
    /\ ChunksAnchored
    /\ \A f \in CFrames : InSourceOrder(f.docs) /\ InSourceOrder(f.final_chunks)
    /\ status = "done" => InSourceOrder(cret)

\* "a aa" with chunk_size 2: "a" is flushed, "aa" is split recursively, and
\* the three chunks come back in text order
WitC15 ==
    /\ status = "done"
    /\ text0 = <<"a", " ", "a", "a">>
    /\ chunk_size = 2
    /\ [j \in 1..Len(cret) |-> cret[j].start] = <<0, 2, 3>>

\* t is what is left of s once pieces were taken from its front
IsSuffix(t, s) == Len(t) <= Len(s) /\ t = SubSeq(s, Len(s) - Len(t) + 1, Len(s))

\* the frame f of merge_splits is about to join its buffer into a chunk
Finalizing(f) ==
    /\ f.fn = "merge_splits"
    /\ f.pc = "loop"
    /\ f.current # <<>>
    /\ f.total + Len(f.splits[f.k]) >= chunk_size

\* the step that finalizes a chunk: what stays buffered before the next piece
\* d is added is a suffix of the chunk's pieces, at most chunk_overlap long,
\* and either empty in length or fitting chunk_size together with d
OverlapBound ==
    (status = "running" /\ cstack # <<>> /\ Finalizing(CTop) /\ cstack' # cstack) =>
        LET f == CTop
            g == cstack'[Len(cstack)]
            d == f.splits[f.k]
            kept == SubSeq(g.current, 1, Len(g.current) - 1)
            sum == SumLen(kept, 1, Len(kept))
        IN  /\ Len(cstack') = Len(cstack)
            /\ g.current # <<>> /\ Last(g.current) = d
            /\ IsSuffix(kept, f.current)
            /\ sum <= chunk_overlap
            /\ sum = 0 \/ sum + Len(d) <= chunk_size
            /\ g.total = sum + Len(d)
            /\ Len(g.docs) > Len(f.docs) => Last(g.docs).pieces = Len(f.current)

\* C18: whenever merge_splits finalizes a chunk and goes on, the pieces kept in
\* the buffer are a (possibly empty) suffix of the pieces of the chunk just
\* emitted, their total length is at most chunk_overlap, and either that total
\* is 0 or the total plus the next piece's length is at most chunk_size.
ThmC18 == [][OverlapBound]_vars

\* a chunk was emitted, a piece of it was kept, and the next piece was added
WitC18 ==
    \E f \in MergeFrames :
        /\ f.docs # <<>>
        /\ f.k - 2 = LastPiece(Last(f.docs))
        /\ Len(f.current) >= 2
        /\ SumLen(f.current, 1, Len(f.current) - 1) > 0
        /\ SumLen(f.current, 1, Len(f.current) - 1) <= chunk_overlap

\* every piece of s is shorter than chunk_size
AllShort(s) == \A j \in 1..Len(s) : Len(s[j]) < chunk_size

\* C19: the buffer of merge_splits is a run of consecutive pieces and total is
\* the sum of their lengths; every call made by split_text passes pieces
\* shorter than chunk_size only; and when every piece is shorter than
\* chunk_size, total never exceeds chunk_size, so the "chunk longer than
\* specified" diagnostic is never printed.
ThmC19 ==
    \A k \in 1..Len(cstack) :
        LET f == cstack[k]
        IN  f.fn = "merge_splits" =>
              /\ f.current = SubSeq(f.splits, f.k - Len(f.current), f.k - 1)
              /\ f.total = SumLen(f.current, 1, Len(f.current))
              /\ k > 1 => AllShort(f.splits)
              /\ AllShort(f.splits) => f.total <= chunk_size /\ ~f.warned

\* split_text called merge_splits, a chunk was emitted, and the buffer is
\* exactly chunk_size long
WitC19 ==
    /\ Len(cstack) >= 2
    /\ CTop.fn = "merge_splits"
    /\ CTop.docs # <<>>
    /\ Len(CTop.current) >= 2
    /\ CTop.total = chunk_size

====
